---- MODULE Spec2Model ----
(***************************************************************************)
(* Model of fmfi-svt-gate/server: the struct framework of                  *)
(* structparse/structdef.py and the request pipeline of                    *)
(* gateserver/controller_api.py (handle_request and its helpers).          *)
(*                                                                         *)
(* Bytes are naturals 0..255, buffers are sequences of bytes.  A result    *)
(* of an operation that may raise is a record whose err field is "" on     *)
(* success and the exception class name otherwise.                         *)
(***************************************************************************)
EXTENDS Integers, Sequences, FiniteSets, TLC

VARIABLES
    \* ---- gateserver/controller_api.py
    started,      \* "boot" | "up" | "failed": module import of controller_api
    MsgType,      \* the members of the MsgType enum the module was loaded with
    controller,   \* the DB table `controller`: id (mac) -> key
    pc,           \* per call of handle_request: the statement it is at
    dgram,        \* per call: the argument buf
    frames,       \* per frame: the locals of handle_request
    out,          \* per call: how the call ended (return value or exception)
    trace,        \* per call: the callees entered so far, in order
    replay,       \* per call: buf had already been answered with a reply
    stdout,       \* what log_message printed, in order
    \* ---- structparse/structdef.py
    sPc, sSchema, sVal, sTail, sBuf, sRes

apiVars == <<started, MsgType, controller, pc, dgram, frames, out, trace, replay, stdout>>
structVars == <<sPc, sSchema, sVal, sTail, sBuf, sRes>>
vars == <<started, MsgType, controller, pc, dgram, frames, out, trace, replay, stdout,
          sPc, sSchema, sVal, sTail, sBuf, sRes>>

(***************************************************************************)
(* Bounds of the model.                                                    *)
(***************************************************************************)
MaxReq == 2        \* calls of handle_request in flight
MaxTail == 2       \* bytes appended after a request's string
MaxFields == 3     \* fields of a struct
MaxExtra == 1      \* bytes a raw buffer handed to unpack may exceed the struct by

DropFrom(buf, n) == SubSeq(buf, n + 1, Len(buf))
TakeTo(buf, n) == SubSeq(buf, 1, n)

SeqsUpTo(S, n) == UNION {[1..k -> S] : k \in 0..n}

(***************************************************************************)
(* structparse: the primitive field types.  They live in a file of the     *)
(* repository that is not under src/; modelled from spec.md 3, 4.1.        *)
(***************************************************************************)
Uint8 == [kind |-> "uint8", n |-> 1, fields |-> <<>>]
Bytes(n) == [kind |-> "bytes", n |-> n, fields |-> <<>>]

RECURSIVE SizeOf(_)
SizeOf(types) ==
    IF types = <<>> THEN 0 ELSE Head(types).n + SizeOf(Tail(types))

\* struct(name, *fields): the class is determined by its ordered field types
struct(fieldtypes) ==
    [kind |-> "struct", n |-> SizeOf(fieldtypes), fields |-> fieldtypes]

\* t.unpack_from(buf) of a primitive: exactly t.n bytes off the front
PrimUnpackFrom(t, buf) ==
    IF Len(buf) < t.n
    THEN [err |-> "DecodeError", val |-> <<>>, rest |-> <<>>]
    ELSE [err |-> "",
          val |-> IF t.kind = "uint8" THEN buf[1] ELSE TakeTo(buf, t.n),
          rest |-> DropFrom(buf, t.n)]

\* t.pack(x) of a primitive
PrimPack(t, x) == IF t.kind = "uint8" THEN <<x>> ELSE x

(***************************************************************************)
(* structparse/structdef.py                                                *)
(***************************************************************************)
RECURSIVE UnpackFields(_, _, _)
RECURSIVE PackFields(_, _)
RECURSIVE PackFieldsReversed(_, _)

\* _StructMixin.__new__ as unpack_from calls it: one positional argument per
\* field, each already a value of its field's type, so the coercion through
\* the field type leaves it as it is; a wrong count is a TypeError
StructNew(cls, vals) ==
    IF Len(vals) # Len(cls.fields)
    THEN [err |-> "TypeError", val |-> <<>>]
    ELSE [err |-> "", val |-> vals]

\* the loop of _StructMixin.unpack_from: each field type in declared order on
\* the shrinking buffer; a field's failure propagates at once
UnpackFields(types, buf, vals) ==
    IF types = <<>>
    THEN [err |-> "", val |-> vals, rest |-> buf]
    ELSE LET t == Head(types)
             f == IF t.kind = "struct"
                  THEN UnpackFields(t.fields, buf, <<>>)
                  ELSE PrimUnpackFrom(t, buf)
         IN  IF f.err # ""
             THEN [err |-> f.err, val |-> <<>>, rest |-> <<>>]
             ELSE UnpackFields(Tail(types), f.rest, Append(vals, f.val))

\* _StructMixin.unpack_from
unpack_from(cls, buf) ==
    LET u == UnpackFields(cls.fields, buf, <<>>)
    IN  IF u.err # "" THEN u
        ELSE LET c == StructNew(cls, u.val)
             IN  [err |-> c.err, val |-> c.val, rest |-> IF c.err = "" THEN u.rest ELSE <<>>]

\* a faulty variant of pack: the fields joined last to first
PackFieldsReversed(types, val) ==
    IF types = <<>> THEN <<>>
    ELSE PackFieldsReversed(Tail(types), Tail(val)) \o
         (IF Head(types).kind = "struct"
          THEN PackFieldsReversed(Head(types).fields, Head(val))
          ELSE PrimPack(Head(types), Head(val)))

\* _StructMixin.pack: b''.join of each field's pack, in declared order
PackFields(types, val) ==
    IF types = <<>> THEN <<>>
    ELSE (IF Head(types).kind = "struct"
          THEN PackFields(Head(types).fields, Head(val))
          ELSE PrimPack(Head(types), Head(val)))
         \o PackFields(Tail(types), Tail(val))

pack(cls, val) == PackFields(cls.fields, val)

\* Type.unpack: unpack_from, then ValueError when bytes are left over
unpack(cls, buf) ==
    LET u == unpack_from(cls, buf)
    IN  IF u.err # "" THEN [err |-> u.err, val |-> <<>>]
        ELSE IF Len(u.rest) > 0 THEN [err |-> "ValueError", val |-> <<>>]
        ELSE [err |-> "", val |-> u.val]

(***************************************************************************)
(* Inputs of the struct specification.                                     *)
(***************************************************************************)
StructBytes == {0, 1}
Pair == struct(<<Uint8, Bytes(1)>>)
FieldTypes == {Uint8, Bytes(2), Pair}
Schemas == {struct(ft) : ft \in (SeqsUpTo(FieldTypes, MaxFields) \ {<<>>})}

RECURSIVE Instances(_)
ValuesOf(t) ==
    IF t.kind = "uint8" THEN StructBytes
    ELSE IF t.kind = "bytes" THEN [1..t.n -> StructBytes]
    ELSE Instances(t.fields)
Instances(types) ==
    IF types = <<>> THEN {<<>>}
    ELSE {<<x>> \o r : x \in ValuesOf(Head(types)), r \in Instances(Tail(types))}

Tails == {<<>>, <<0, 1>>}
RawBufs(cls) == SeqsUpTo(StructBytes, cls.n + MaxExtra)

StructIdle ==
    /\ sPc = "idle" /\ sSchema = Uint8 /\ sVal = <<>> /\ sTail = <<>>
    /\ sBuf = <<>> /\ sRes = [err |-> "", val |-> <<>>, rest |-> <<>>]

StructInit ==
    /\ sPc = "start"
    /\ sSchema \in Schemas
    /\ sVal = <<>> /\ sTail = <<>> /\ sBuf = <<>>
    /\ sRes = [err |-> "", val |-> <<>>, rest |-> <<>>]

\* v = S(...): a valid instance, and the tail that will follow its bytes
Construct(v, tail) ==
    /\ sPc = "start"
    /\ sVal' = v /\ sTail' = tail /\ sPc' = "built"
    /\ UNCHANGED <<sSchema, sBuf, sRes>>
    /\ UNCHANGED apiVars

\* v.pack()
DoPack ==
    /\ sPc = "built"
    /\ sBuf' = pack(sSchema, sVal) /\ sPc' = "packed"
    /\ UNCHANGED <<sSchema, sVal, sTail, sRes>>
    /\ UNCHANGED apiVars

\* S.unpack_from(v.pack() + tail)
DoUnpackFrom ==
    /\ sPc = "packed"
    /\ sRes' = unpack_from(sSchema, sBuf \o sTail) /\ sPc' = "unpacked"
    /\ UNCHANGED <<sSchema, sVal, sTail, sBuf>>
    /\ UNCHANGED apiVars

\* S.unpack(buf) of an arbitrary buffer
DoUnpack(buf) ==
    /\ sPc = "start"
    /\ sBuf' = buf
    /\ sRes' = LET u == unpack(sSchema, buf)
               IN  [err |-> u.err, val |-> u.val, rest |-> <<>>]
    /\ sPc' = "exact"
    /\ UNCHANGED <<sSchema, sVal, sTail>>
    /\ UNCHANGED apiVars

StructNext ==
    \/ \E v \in Instances(sSchema.fields), tail \in Tails : Construct(v, tail)
    \/ DoPack
    \/ DoUnpackFrom
    \/ \E buf \in RawBufs(sSchema) : DoUnpack(buf)

(***************************************************************************)
(* gateserver/controller_protocol.py, gateserver/utils.py, gateserver/db.py *)
(* are files of the repository that are not under src/: modelled from      *)
(* spec.md (3, 4.2-4.5, 6, 7) and from their uses in src/.                 *)
(***************************************************************************)
PROTOCOL_VERSION == 1
PacketHead == struct(<<Uint8, Bytes(6), Bytes(18)>>)
RequestHead == struct(<<Uint8>>)
ResponseHead == struct(<<Uint8>>)

\* the members the MsgType enum may declare, with their wire values
MsgTypeValue(t) == IF t = "OPEN" THEN 1 ELSE 2
\* the members of ResponseStatus (S), with their wire values
StatusValue(s) == IF s = "OK" THEN 1 ELSE 2

None == [isNone |-> TRUE, bytes |-> <<>>]

NoError == [err |-> "", msg |-> ""]
BadMessageError(msg) == [err |-> "BadMessageError", msg |-> msg]

\* checkmsg(cond, msg): raises BadMessageError(msg) unless cond
checkmsg(cond, msg) == IF cond THEN NoError ELSE BadMessageError(msg)

HexDigit(n) ==
    CASE n = 0 -> "0" [] n = 1 -> "1" [] n = 2 -> "2" [] n = 3 -> "3"
      [] n = 4 -> "4" [] n = 5 -> "5" [] n = 6 -> "6" [] n = 7 -> "7"
      [] n = 8 -> "8" [] n = 9 -> "9" [] n = 10 -> "a" [] n = 11 -> "b"
      [] n = 12 -> "c" [] n = 13 -> "d" [] n = 14 -> "e" [] n = 15 -> "f"

\* utils.bytes2mac: the colon-separated text of a binary address
RECURSIVE bytes2mac(_)
bytes2mac(mac) ==
    IF mac = <<>> THEN <<>>
    ELSE <<HexDigit(Head(mac) \div 16), HexDigit(Head(mac) % 16)>>
         \o (IF Len(mac) > 1 THEN <<":">> ELSE <<>>)
         \o bytes2mac(Tail(mac))

\* db.exec_sql('SELECT key FROM controller WHERE id = %s', (id,), ret=True)
exec_sql_select_key(table, id) == {row \in table : row.id = id}

\* the authenticated payload: the body bound to the key and the nonce.  The
\* tag is ideal: it is the (key, nonce) pair itself, so it verifies under no
\* other key and no other nonce.
Seal(key, nonce, body) == key \o nonce \o body
Open(key, nonce, payload) ==
    LET tag == key \o nonce
    IN  IF Len(payload) >= Len(tag) /\ TakeTo(payload, Len(tag)) = tag
        THEN [err |-> "", msg |-> "", body |-> DropFrom(payload, Len(tag))]
        ELSE [err |-> "BadMessageError", msg |-> "decryption failed", body |-> <<>>]

\* parse_packet_head(buf) -> (PacketHead, remainder)
parse_packet_head(buf) ==
    LET u == unpack_from(PacketHead, buf)
    IN  IF u.err # ""
        THEN [err |-> "BadMessageError", msg |-> "packet too short",
              head |-> <<>>, payload |-> <<>>]
        ELSE IF u.val[1] # PROTOCOL_VERSION
        THEN [err |-> "BadMessageError", msg |-> "unknown protocol version",
              head |-> <<>>, payload |-> <<>>]
        ELSE [err |-> "", msg |-> "", head |-> u.val, payload |-> u.rest]

\* parse_r(RequestHead, packet_head, key, payload)
\*   -> (req_head, req_type, indata), the enum being `enum`
parse_r(enum, headType, packet_head, key, payload) ==
    LET o == Open(key, packet_head[3], payload)
        u == unpack_from(headType, o.body)
        bad(msg) == [err |-> "BadMessageError", msg |-> msg, req_head |-> <<>>,
                     req_type |-> "", indata |-> <<>>]
    IN  IF o.err # "" THEN bad(o.msg)
        ELSE IF u.err # "" THEN bad("payload too short")
        ELSE IF \A t \in enum : MsgTypeValue(t) # u.val[1] THEN bad("unknown message type")
        ELSE [err |-> "", msg |-> "", req_head |-> u.val,
              req_type |-> CHOOSE t \in enum : MsgTypeValue(t) = u.val[1],
              indata |-> u.rest]

\* make_packet(PacketHead(...), head, key, data): the header, then the
\* authenticated payload
make_packet(packet_head, innerHeadType, inner_head, key, data) ==
    pack(PacketHead, packet_head)
        \o Seal(key, packet_head[3], pack(innerHeadType, inner_head) \o data)

\* make_reply_for(packet_head, req_head, key, status, outdata)
make_reply_for(packet_head, req_head, key, status, outdata) ==
    make_packet(packet_head, ResponseHead, <<StatusValue(status)>>, key,
                IF outdata.isNone THEN <<>> ELSE outdata.bytes)

(***************************************************************************)
(* gateserver/controller_api.py                                            *)
(***************************************************************************)
\* a faulty variant of get_key_for_mac: the row count checked with <= instead of ==
get_key_for_mac_atmost1(table, mac) ==
    LET rs == exec_sql_select_key(table, bytes2mac(mac))
        c == checkmsg(Cardinality(rs) <= 1, "unknown controllerID ")
    IN  IF c.err # "" THEN [err |-> c.err, msg |-> c.msg, key |-> <<>>]
        ELSE IF rs = {} THEN [err |-> "IndexError", msg |-> "list index out of range", key |-> <<>>]
        ELSE [err |-> "", msg |-> "", key |-> (CHOOSE row \in rs : TRUE).key]

get_key_for_mac(table, mac) ==
    LET rs == exec_sql_select_key(table, bytes2mac(mac))
        c == checkmsg(Cardinality(rs) = 1, "unknown controllerID ")
    IN  IF c.err # "" THEN [err |-> c.err, msg |-> c.msg, key |-> <<>>]
        ELSE [err |-> "", msg |-> "", key |-> (CHOOSE row \in rs : TRUE).key]

\* a faulty variant of fstring: the slice to the declared length left out
fstring_noslice(buf) ==
    IF buf = <<>>
    THEN [err |-> "IndexError", msg |-> "index out of range", str |-> <<>>]
    ELSE LET length == buf[1]
             string == DropFrom(buf, 1)
             c == checkmsg(length <= Len(string), "fstring length > buffer size")
         IN  [err |-> c.err, msg |-> c.msg,
              str |-> IF c.err = "" THEN string ELSE <<>>]

fstring(buf) ==
    IF buf = <<>>
    THEN [err |-> "IndexError", msg |-> "index out of range", str |-> <<>>]
    ELSE LET length == buf[1]
             string == DropFrom(buf, 1)
             c == checkmsg(length <= Len(string), "fstring length > buffer size")
         IN  [err |-> c.err, msg |-> c.msg,
              str |-> IF c.err = "" THEN TakeTo(string, length) ELSE <<>>]

Hello == <<72, 101, 108, 108, 111>>

\* the keys of the dict process_request
process_request_keys == {"OPEN"}

\* process_request[req_type](indata)
process_request(req_type, indata) ==
    IF req_type \notin process_request_keys
    THEN [err |-> "KeyError", msg |-> req_type, status |-> "", outdata |-> None]
    ELSE LET s == fstring(indata)
         IN  IF s.err # ""
             THEN [err |-> s.err, msg |-> s.msg, status |-> "", outdata |-> None]
             ELSE [err |-> "", msg |-> "",
                   status |-> IF s.str = Hello THEN "OK" ELSE "ERR",
                   outdata |-> None]

\* a faulty variant of the start-up assertion: the assert left out
assert_dropped(enum) == TRUE

\* assert set(MsgType) == set(process_request)
assert_all_handled(enum) == enum = process_request_keys

\* log_message: the line printed
log_message(controllerID, req_type, indata, status) ==
    [mac |-> bytes2mac(controllerID), type |-> req_type, indata |-> indata,
     status |-> status]

\* a faulty variant of log_bad_packet: the error swallowed
log_bad_packet_swallow(buf, e) ==
    [kind |-> "return", err |-> "", msg |-> "", pkt |-> <<>>]

\* log_bad_packet(buf, e): raise e
log_bad_packet(buf, e) ==
    [kind |-> "raise", err |-> e.err, msg |-> e.msg, pkt |-> <<>>]

\* a faulty variant of the statement order: the reply built before the log line
next_stmt_reply_first(stmt) ==
    CASE stmt = "parse_packet_head" -> "get_key_for_mac"
      [] stmt = "get_key_for_mac" -> "parse_r"
      [] stmt = "parse_r" -> "process_request"
      [] stmt = "process_request" -> "make_reply_for"
      [] stmt = "log_message" -> "done"
      [] stmt = "make_reply_for" -> "done"

\* the statements of handle_request's try block, in order
next_stmt(stmt) ==
    CASE stmt = "parse_packet_head" -> "get_key_for_mac"
      [] stmt = "get_key_for_mac" -> "parse_r"
      [] stmt = "parse_r" -> "process_request"
      [] stmt = "process_request" -> "log_message"
      [] stmt = "log_message" -> "make_reply_for"
      [] stmt = "make_reply_for" -> "done"

\* a faulty variant of the locals: one module-level set of variables for all calls
frame_shared(call) == 1

\* the locals of handle_request belong to the call
frame(call) == call

(***************************************************************************)
(* Inputs: the key store, the requesters' packets.                         *)
(***************************************************************************)
MacA == <<170, 187, 204, 221, 238, 255>>     \* aa:bb:cc:dd:ee:ff, known
MacB == <<2, 0, 0, 0, 0, 1>>                 \* 02:00:00:00:00:01, not in the table
MacC == <<16, 50, 84, 118, 152, 186>>        \* 10:32:54:76:98:ba, known
KeyA == <<11>>
KeyC == <<33>>
KeyX == <<99>>                               \* nobody's key
Nonce1 == [i \in 1..18 |-> 1]
Nonce2 == [i \in 1..18 |-> IF i = 18 THEN 2 ELSE 1]

InitialTable ==
    { [id |-> <<"a","a",":","b","b",":","c","c",":","d","d",":","e","e",":","f","f">>,
       key |-> KeyA],
      [id |-> <<"1","0",":","3","2",":","5","4",":","7","6",":","9","8",":","b","a">>,
       key |-> KeyC] }

\* udpclient.request: the packet a requester sends
request(ver, mac, nonce, key, typeByte, data) ==
    make_packet(<<ver, mac, nonce>>, RequestHead, <<typeByte>>, key, data)

GoodHello == request(PROTOCOL_VERSION, MacA, Nonce1, KeyA, 1, <<5>> \o Hello)

\* the packets of the concurrent specification: one per way a packet can be
\* right or wrong
Datagrams ==
    { GoodHello,
      request(PROTOCOL_VERSION, MacA, Nonce2, KeyA, 1, <<5>> \o Hello),
      request(PROTOCOL_VERSION, MacC, Nonce1, KeyC, 1, <<5>> \o Hello \o <<33>>),
      request(PROTOCOL_VERSION, MacA, Nonce1, KeyA, 1, <<5, 72, 101, 108, 108, 112>>),
      request(PROTOCOL_VERSION, MacA, Nonce1, KeyA, 1, <<9, 72>>),
      request(PROTOCOL_VERSION, MacA, Nonce1, KeyA, 1, <<>>),
      request(PROTOCOL_VERSION, MacA, Nonce1, KeyA, 2, <<5>> \o Hello),
      request(PROTOCOL_VERSION, MacB, Nonce1, KeyA, 1, <<5>> \o Hello),
      request(PROTOCOL_VERSION, MacA, Nonce1, KeyX, 1, <<5>> \o Hello),
      request(PROTOCOL_VERSION + 1, MacA, Nonce1, KeyA, 1, <<5>> \o Hello),
      pack(PacketHead, <<PROTOCOL_VERSION, MacA, Nonce2>>)
          \o Seal(KeyA, Nonce1, <<1, 5>> \o Hello),
      pack(PacketHead, <<PROTOCOL_VERSION, MacA, Nonce1>>) \o KeyA \o Nonce1,
      TakeTo(GoodHello, 10),
      <<>> }

\* the request data of the sequential specification: a length byte, a string
\* that is 'Hello', a prefix of it or 'Hello' with one byte changed, and a tail
TailBytes == {0, 72}
HelloLike ==
    {TakeTo(Hello, k) : k \in 0..Len(Hello)}
        \cup {[Hello EXCEPT ![i] = 0] : i \in 1..Len(Hello)}
DataBufs ==
    {<<>>} \cup
    {<<l>> \o h \o t : l \in 0..(Len(Hello) + MaxTail), h \in HelloLike,
                       t \in SeqsUpTo(TailBytes, MaxTail)}
KnownDeviceDatagrams ==
    {request(PROTOCOL_VERSION, MacA, Nonce1, KeyA, 1, d) : d \in DataBufs}

\* the declarations of MsgType the module may be loaded with
EnumDecls == {{"OPEN"}, {"OPEN", "CLOSE"}, {"CLOSE"}}

(***************************************************************************)
(* The state machine of controller_api.                                    *)
(***************************************************************************)
Calls == 1..MaxReq

EmptyFrame ==
    [packet_head |-> <<>>, payload |-> <<>>, key |-> <<>>, req_head |-> <<>>,
     req_type |-> "", indata |-> <<>>, status |-> "", outdata |-> None]
NoOut == [kind |-> "none", err |-> "", msg |-> "", pkt |-> <<>>]

ApiInit ==
    /\ started = "boot"
    /\ MsgType \in EnumDecls
    /\ controller = InitialTable
    /\ pc = [r \in Calls |-> "idle"]
    /\ dgram = [r \in Calls |-> <<>>]
    /\ frames = [f \in Calls |-> EmptyFrame]
    /\ out = [r \in Calls |-> NoOut]
    /\ trace = [r \in Calls |-> <<>>]
    /\ replay = [r \in Calls |-> FALSE]
    /\ stdout = <<>>

ApiIdle == ApiInit /\ MsgType = {"OPEN"}

\* import of controller_api: the dict literal needs MsgType.OPEN, then the
\* assertion
Startup ==
    /\ started = "boot"
    /\ started' = IF "OPEN" \in MsgType /\ assert_all_handled(MsgType)
                  THEN "up" ELSE "failed"
    /\ UNCHANGED <<MsgType, controller, pc, dgram, frames, out, trace, replay, stdout>>
    /\ UNCHANGED structVars

\* handle_request(buf) is called
Receive(r, buf) ==
    /\ started = "up"
    /\ pc[r] = "idle"
    /\ pc' = [pc EXCEPT ![r] = "parse_packet_head"]
    /\ dgram' = [dgram EXCEPT ![r] = buf]
    /\ replay' = [replay EXCEPT ![r] =
                    \E q \in Calls : /\ pc[q] = "done"
                                     /\ out[q].kind = "return"
                                     /\ dgram[q] = buf]
    /\ UNCHANGED <<started, MsgType, controller, frames, out, trace, stdout>>
    /\ UNCHANGED structVars

\* call r has run statement stmt: with no exception it goes on with the locals
\* newFrame; a BadMessageError goes to the except clause, any other exception
\* leaves handle_request as it is
Proceed(r, stmt, res, newFrame) ==
    /\ pc[r] = stmt
    /\ IF res.err = ""
       THEN /\ frames' = [frames EXCEPT ![frame(r)] = newFrame]
            /\ pc' = [pc EXCEPT ![r] = next_stmt(stmt)]
            /\ trace' = [trace EXCEPT ![r] = Append(@, stmt)]
            /\ out' = out
       ELSE /\ frames' = frames
            /\ pc' = [pc EXCEPT ![r] = "done"]
            /\ trace' = [trace EXCEPT ![r] =
                            IF res.err = "BadMessageError"
                            THEN @ \o <<stmt, "log_bad_packet">>
                            ELSE Append(@, stmt)]
            /\ out' = [out EXCEPT ![r] =
                          IF res.err = "BadMessageError"
                          THEN log_bad_packet(dgram[r], res)
                          ELSE [kind |-> "raise", err |-> res.err, msg |-> res.msg,
                                pkt |-> <<>>]]
    /\ UNCHANGED <<started, MsgType, controller, dgram, replay>>
    /\ UNCHANGED structVars

\* packet_head, payload = parse_packet_head(buf)
DoParsePacketHead(r) ==
    LET res == parse_packet_head(dgram[r])
    IN  /\ Proceed(r, "parse_packet_head", res,
                   [frames[frame(r)] EXCEPT !.packet_head = res.head,
                                            !.payload = res.payload])
        /\ stdout' = stdout

\* key = get_key_for_mac(packet_head.controllerID)
DoGetKeyForMac(r) ==
    LET res == get_key_for_mac(controller, frames[frame(r)].packet_head[2])
    IN  /\ Proceed(r, "get_key_for_mac", res,
                   [frames[frame(r)] EXCEPT !.key = res.key])
        /\ stdout' = stdout

\* req_head, req_type, indata = parse_r(RequestHead, packet_head, key, payload)
DoParseR(r) ==
    LET fr == frames[frame(r)]
        res == parse_r(MsgType, RequestHead, fr.packet_head, fr.key, fr.payload)
    IN  /\ Proceed(r, "parse_r", res,
                   [fr EXCEPT !.req_head = res.req_head, !.req_type = res.req_type,
                              !.indata = res.indata])
        /\ stdout' = stdout

\* status, outdata = process_request[req_type](indata)
DoProcessRequest(r) ==
    LET fr == frames[frame(r)]
        res == process_request(fr.req_type, fr.indata)
    IN  /\ Proceed(r, "process_request", res,
                   [fr EXCEPT !.status = res.status, !.outdata = res.outdata])
        /\ stdout' = stdout

\* log_message(packet_head.controllerID, req_type, indata, status)
DoLogMessage(r) ==
    LET fr == frames[frame(r)]
    IN  /\ Proceed(r, "log_message", NoError, fr)
        /\ stdout' = Append(stdout, log_message(fr.packet_head[2], fr.req_type,
                                                fr.indata, fr.status))

\* return make_reply_for(packet_head, req_head, key, status, outdata)
DoMakeReplyFor(r) ==
    LET fr == frames[frame(r)]
    IN  /\ pc[r] = "make_reply_for"
        /\ pc' = [pc EXCEPT ![r] = next_stmt("make_reply_for")]
        /\ trace' = [trace EXCEPT ![r] = Append(@, "make_reply_for")]
        /\ out' = [out EXCEPT ![r] =
                      [kind |-> "return", err |-> "", msg |-> "",
                       pkt |-> make_reply_for(fr.packet_head, fr.req_head, fr.key,
                                              fr.status, fr.outdata)]]
        /\ UNCHANGED <<started, MsgType, controller, dgram, frames, replay, stdout>>
        /\ UNCHANGED structVars

Step(r) ==
    \/ DoParsePacketHead(r)
    \/ DoGetKeyForMac(r)
    \/ DoParseR(r)
    \/ DoProcessRequest(r)
    \/ DoLogMessage(r)
    \/ DoMakeReplyFor(r)

\* handle_request running to its end alone on buf: the reference the
\* interleaved calls are compared with
HandleAlone(enum, table, buf) ==
    LET h == parse_packet_head(buf)
        k == get_key_for_mac(table, h.head[2])
        p == parse_r(enum, RequestHead, h.head, k.key, h.payload)
        d == process_request(p.req_type, p.indata)
        fail(e) == IF e.err = "BadMessageError" THEN log_bad_packet(buf, e)
                   ELSE [kind |-> "raise", err |-> e.err, msg |-> e.msg, pkt |-> <<>>]
    IN  IF h.err # "" THEN fail(h)
        ELSE IF k.err # "" THEN fail(k)
        ELSE IF p.err # "" THEN fail(p)
        ELSE IF d.err # "" THEN fail(d)
        ELSE [kind |-> "return", err |-> "", msg |-> "",
              pkt |-> make_reply_for(h.head, p.req_head, k.key, d.status, d.outdata)]

(***************************************************************************)
(* Specifications.                                                         *)
(***************************************************************************)
\* any number of calls up to MaxReq, their statements interleaved
Init == ApiInit /\ StructIdle
Next ==
    \/ Startup
    \/ \E r \in Calls, buf \in Datagrams : Receive(r, buf)
    \/ \E r \in Calls : Step(r)
Spec == Init /\ [][Next]_vars

\* one call at a time, on every request data buffer of a known device
SeqNext ==
    \/ Startup
    \/ \E buf \in KnownDeviceDatagrams : Receive(1, buf)
    \/ Step(1)
SeqSpec == Init /\ [][SeqNext]_vars

\* the struct framework on its own
StructSpecInit == ApiIdle /\ StructInit
StructSpec == StructSpecInit /\ [][StructNext]_vars

(***************************************************************************)
(* Helpers of the properties.                                              *)
(***************************************************************************)
Elems(seq) == {seq[i] : i \in 1..Len(seq)}
Finished(r) == pc[r] = "done"
Replied(r) == Finished(r) /\ out[r].kind = "return"
RaisedBadMessage(r) ==
    Finished(r) /\ out[r].kind = "raise" /\ out[r].err = "BadMessageError"
Pipeline ==
    <<"parse_packet_head", "get_key_for_mac", "parse_r", "process_request",
      "log_message", "make_reply_for">>

\* the statement of handle_request at which buf raises, its error, and "" at
\* none
Failure(enum, table, buf) ==
    LET h == parse_packet_head(buf)
        k == get_key_for_mac(table, h.head[2])
        p == parse_r(enum, RequestHead, h.head, k.key, h.payload)
        d == process_request(p.req_type, p.indata)
    IN  IF h.err # "" THEN [at |-> 1, err |-> h.err]
        ELSE IF k.err # "" THEN [at |-> 2, err |-> k.err]
        ELSE IF p.err # "" THEN [at |-> 3, err |-> p.err]
        ELSE IF d.err # "" THEN [at |-> 4, err |-> d.err]
        ELSE [at |-> 0, err |-> ""]

(***************************************************************************)
(* C1.  Anti-replay: once handle_request has answered a datagram with a    *)
(* reply, a later call with the byte-identical datagram fails with         *)
(* BadMessageError; the handler is not run and no second reply is          *)
(* returned.                                                               *)
(***************************************************************************)
C1_ReplayRejected ==
    \A r \in Calls :
        (Finished(r) /\ replay[r]) =>
            /\ RaisedBadMessage(r)
            /\ "process_request" \notin Elems(trace[r])

(***************************************************************************)
(* C2.  A datagram whose header parses and whose deviceID has no row in    *)
(* the key store fails with BadMessageError at the key lookup, and         *)
(* parse_r, the handler, log_message and make_reply_for are never reached  *)
(* for it.                                                                 *)
(***************************************************************************)
UnknownDevice(buf) ==
    LET h == parse_packet_head(buf)
    IN  /\ h.err = ""
        /\ \A row \in controller : row.id # bytes2mac(h.head[2])

C2_UnknownDeviceFailsAtLookup ==
    \A r \in Calls :
        (pc[r] # "idle" /\ UnknownDevice(dgram[r])) =>
            /\ pc[r] \in {"parse_packet_head", "get_key_for_mac", "done"}
            /\ Elems(trace[r]) \cap {"parse_r", "process_request", "log_message",
                                     "make_reply_for"} = {}
            /\ \A i \in 1..Len(stdout) :
                   stdout[i].mac # bytes2mac(parse_packet_head(dgram[r]).head[2])
            /\ Finished(r) =>
                   /\ RaisedBadMessage(r)
                   /\ out[r].msg = "unknown controllerID "
                   /\ trace[r] = <<"parse_packet_head", "get_key_for_mac",
                                   "log_bad_packet">>

C2_Witness ==
    \E r \in Calls : Finished(r) /\ UnknownDevice(dgram[r])

(***************************************************************************)
(* C3.  A BadMessageError raised at any stage of handle_request (header    *)
(* parsing, key lookup, payload decoding, the handler) aborts the call:    *)
(* no reply packet is returned, the later stages are skipped, log_message  *)
(* is not called, and the error reaches the caller.                        *)
(***************************************************************************)
C3_BadMessageAborts ==
    \A r \in Calls :
        LET f == Failure(MsgType, controller, dgram[r])
        IN  (Finished(r) /\ f.err = "BadMessageError") =>
                /\ out[r].kind = "raise"
                /\ out[r].err = "BadMessageError"
                /\ out[r].pkt = <<>>
                /\ trace[r] = TakeTo(Pipeline, f.at) \o <<"log_bad_packet">>
                /\ "log_message" \notin Elems(trace[r])

C3_Witness ==
    /\ \E r \in Calls :
          /\ Finished(r)
          /\ Failure(MsgType, controller, dgram[r]) = [at |-> 4, err |-> "BadMessageError"]
    /\ \E r \in Calls :
          /\ Finished(r)
          /\ Failure(MsgType, controller, dgram[r]) = [at |-> 3, err |-> "BadMessageError"]

(***************************************************************************)
(* C4.  For a datagram of a known device, whatever the authenticated       *)
(* request data (the empty buffer and a length byte larger than the rest   *)
(* included), handle_request either returns a complete reply packet or     *)
(* raises BadMessageError, and nothing else.                               *)
(***************************************************************************)
C4_ReplyOrBadMessage ==
    \A r \in Calls :
        (Finished(r) /\ ~UnknownDevice(dgram[r])) =>
            \/ /\ out[r].kind = "return"
               /\ parse_packet_head(out[r].pkt).err = ""
            \/ /\ out[r].kind = "raise"
               /\ out[r].err = "BadMessageError"

(***************************************************************************)
(* C5.  Dispatch exhaustiveness: whenever handle_request can run, the keys *)
(* of process_request are exactly the members of MsgType and the lookup    *)
(* process_request[req_type] never fails; with a member that has no        *)
(* handler, or a key that is no member, start-up fails and no request is   *)
(* ever handled.                                                           *)
(***************************************************************************)
C5_DispatchExhaustive ==
    /\ started = "up" =>
           /\ process_request_keys = MsgType
           /\ \A r \in Calls : out[r].err # "KeyError"
    /\ (started # "boot" /\ process_request_keys # MsgType) => started = "failed"
    /\ started # "up" => \A r \in Calls : pc[r] = "idle" /\ trace[r] = <<>>

C5_Witness ==
    /\ started = "up"
    /\ \E r \in Calls :
          /\ "process_request" \in Elems(trace[r])
          /\ out[r].kind # "raise"

(***************************************************************************)
(* C6.  Round trip of structs: for a struct type S of fixed-size fields    *)
(* and a valid instance v, S.unpack(v.pack()) = v, and                     *)
(* S.unpack_from(v.pack() + tail) = (v, tail) for every tail; the bytes    *)
(* are the fields' bytes in field-declaration order.                       *)
(***************************************************************************)
RECURSIVE FieldBytes(_, _, _)
\* the bytes of fields i.. of val, first field first
FieldBytes(types, val, i) ==
    IF i > Len(types) THEN <<>>
    ELSE (IF types[i].kind = "uint8" THEN <<val[i]>>
          ELSE IF types[i].kind = "bytes" THEN val[i]
          ELSE FieldBytes(types[i].fields, val[i], 1))
         \o FieldBytes(types, val, i + 1)

C6_StructRoundTrip ==
    /\ sPc \in {"packed", "unpacked"} =>
           /\ sBuf = FieldBytes(sSchema.fields, sVal, 1)
           /\ Len(sBuf) = sSchema.n
           /\ unpack(sSchema, sBuf) = [err |-> "", val |-> sVal]
    /\ sPc = "unpacked" =>
           sRes = [err |-> "", val |-> sVal, rest |-> sTail]

C6_Witness ==
    /\ sPc = "unpacked"
    /\ Len(sSchema.fields) > 1
    /\ sTail # <<>>
    /\ \E i \in 1..Len(sSchema.fields) : sSchema.fields[i].kind = "struct"

(***************************************************************************)
(* C7.  Exactness: T.unpack(buffer) of a struct type T fails with a        *)
(* ValueError whenever the buffer's length differs from T's size, shorter  *)
(* or longer, and succeeds only for a buffer of exactly T's size.          *)
(***************************************************************************)
C7_UnpackExact ==
    sPc = "exact" =>
        /\ Len(sBuf) # sSchema.n => sRes.err = "ValueError"
        /\ sRes.err = "" <=> Len(sBuf) = sSchema.n

(***************************************************************************)
(* C8.  The OPEN handler: for request data that is a well-formed           *)
(* length-prefixed string (first byte L, at least L bytes after it) the    *)
(* status is OK exactly when the L bytes after the length byte are         *)
(* 'Hello' and ERR otherwise, the output data is None, and the bytes       *)
(* after the declared length do not matter.                                *)
(***************************************************************************)
WellFormed(data) == data # <<>> /\ data[1] <= Len(data) - 1

C8_OpenResult ==
    \A r \in Calls :
        LET fr == frames[frame(r)]
            d == parse_r(MsgType, RequestHead, parse_packet_head(dgram[r]).head,
                         KeyA, parse_packet_head(dgram[r]).payload).indata
        IN  ("process_request" \in Elems(trace[r]) /\ WellFormed(d)) =>
                /\ out[r].kind # "raise"
                /\ fr.status = IF SubSeq(d, 2, d[1] + 1) = Hello THEN "OK" ELSE "ERR"
                /\ fr.outdata = None
                /\ Replied(r) =>
                       out[r].pkt = make_reply_for(fr.packet_head, fr.req_head, KeyA,
                                        process_request("OPEN", TakeTo(d, d[1] + 1)).status,
                                        None)

C8_Witness ==
    \E r \in Calls :
        /\ Replied(r)
        /\ frames[frame(r)].status = "OK"
        /\ Len(frames[frame(r)].indata) > 1 + Len(Hello)

(***************************************************************************)
(* C9.  Requests are independent: however the calls of handle_request are  *)
(* interleaved, each call ends as it would have ended alone on its         *)
(* datagram and the key store, and the key store is never written.         *)
(***************************************************************************)
C9_Independent ==
    /\ controller = InitialTable
    /\ \A r \in Calls :
           Finished(r) => out[r] = HandleAlone(MsgType, InitialTable, dgram[r])

C9_Witness ==
    \E r, q \in Calls :
        /\ r # q
        /\ Replied(r)
        /\ RaisedBadMessage(q)
        /\ Len(trace[q]) > 2
        /\ Len(stdout) > 0

(***************************************************************************)
(* C10.  Success path of handle_request: a call that returns a reply has   *)
(* run, once each and in this order, parse_packet_head, get_key_for_mac,   *)
(* parse_r, the handler, log_message, make_reply_for; the log line carries *)
(* the handler's status, and the reply carries that status under the       *)
(* request's own packet head (deviceID, nonce) and key.                    *)
(***************************************************************************)
C10_SuccessOrder ==
    \A r \in Calls :
        Replied(r) =>
            LET h == parse_packet_head(dgram[r])
                k == get_key_for_mac(controller, h.head[2])
                p == parse_r(MsgType, RequestHead, h.head, k.key, h.payload)
                d == process_request(p.req_type, p.indata)
                rh == parse_packet_head(out[r].pkt)
                ro == Open(k.key, h.head[3], rh.payload)
            IN  /\ trace[r] = Pipeline
                /\ \E i \in 1..Len(stdout) :
                       stdout[i] = [mac |-> bytes2mac(h.head[2]), type |-> p.req_type,
                                    indata |-> p.indata, status |-> d.status]
                /\ rh.err = ""
                /\ rh.head = h.head
                /\ ro.err = ""
                /\ ro.body = <<StatusValue(d.status)>>

C10_Witness ==
    \E r, q \in Calls :
        /\ r # q
        /\ Replied(r) /\ Replied(q)
        /\ dgram[r] # dgram[q]
        /\ Len(stdout) = 2
        /\ stdout[1].status # stdout[2].status

====
